---- MODULE Spec2Model ----
(***************************************************************************)
(* A model of package orapub (src/orapub.go): the engine that polls the    *)
(* publish table t_aepb_publish inside a transaction, reads each event     *)
(* from t_aeev_events, hands it to every registered EventProcessor and     *)
(* deletes the publish row of every event some processor accepted.         *)
(*                                                                         *)
(* The database is the environment: a statement may fail, with a           *)
(* connection-class error or another one; select ... for update waits for  *)
(* rows another open transaction has locked; deletes become visible at     *)
(* commit.  Variables marked "history" record what happened in the current *)
(* pass; the program does not read them.                                   *)
(***************************************************************************)
EXTENDS Integers, Sequences, FiniteSets, TLC

\* ---------------------------------------------------------------- bounds
\* The batch cap of pollEvents.  The source's query says rownum < 101, a cap
\* of 100 rows; the model scales it down so that more rows than the cap fit
\* in the publish table.
BatchCap == 2

\* ------------------------------------------------------ program constants
consecutiveErrorsThreshold == 100

\* ------------------------------------------------------------- universes
Engines == {"e1", "e2"}
Aggregates == {"A", "B"}
Versions == {1, 2}
Names == {"h1", "h2"}
Procs == {"p1", "p2"}

\* EventSpec: AggregateId, Version
EventSpec == Aggregates \X Versions

\* A Go func value that is nil.
Nil == "nil"
\* EventProcessor values RegisterEventProcessor may be called with.
EventProcessor == [Initialize : {Nil, "init"}, Processor : Procs \cup {Nil}]
\* The registry has no entry under a name.
NoEntry == [Initialize |-> Nil, Processor |-> Nil]

\* Errors.
NoError == "nil"
ErrNoEventProcessorsRegistered == "ErrNoEventProcessorsRegistered"
ErrNotConnected == "ErrNotConnected"
ErrNilEventProcessorField == "ErrNilEventProcessorField"
\* What a database call can fail with: a connection-class error or another.
DbErrors == {"connErr", "queryErr"}
\* retrieveEventDetail: fmt.Errorf("Aggregate %s version %d not found")
ErrNotFound == "notFound"

\* oraconn.IsConnectionError
IsConnectionError(err) == err = "connErr"

\* Rows of versions 1..n[a] of every aggregate a.
Pending(n) == {es \in EventSpec : es[2] <= n[es[1]]}
\* Publish tables a run starts from: of every aggregate, versions 1..N pending.
Tables == {Pending(n) : n \in [Aggregates -> {0} \cup Versions]}
\* Event logs a run starts from: complete, or without the event of one row.
Logs == {EventSpec, EventSpec \ {<<"A", 1>>}}

\* How the application drives an instance: never, by single passes
\* (ProcessEvents(false)) or by the loop (ProcessEvents(true)).
OneInstance(how) == [e \in Engines |-> IF e = "e1" THEN how ELSE "none"]
TwoInstances == [e \in Engines |-> "single"]

\* The deployments a run starts from: one instance driven by single passes
\* over any table, with up to two processors to register; two competing
\* instances, and one looping instance, over a table of at most one row, with
\* one processor to register.  The latter two come with a health probe that
\* calls IsHealth when they start from one pending row and a complete log.
Deployments ==
  [driver : {OneInstance("single")}, handlers : {Names},
   publish : Tables, events : Logs, probe : {FALSE}]
  \cup {[driver |-> d, handlers |-> {"h1"}, publish |-> t, events |-> l,
          probe |-> (t # {} /\ l = EventSpec)] :
          d \in {TwoInstances, OneInstance("loop")},
          t \in {t \in Tables : t \subseteq {<<"A", 1>>}}, l \in Logs}

\* What the health probe saw last: the instance asked, whether the database
\* answered the ping, and what IsHealth returned.
NoProbe == [who |-> "none", ping |-> FALSE, result |-> FALSE]

\* No call of RegisterEventProcessor to remember.
NoCall == [name |-> "none", eventProcessor |-> NoEntry, err |-> NoError]

VARIABLES
  eventProcessors,    \* the package-level registry: name -> EventProcessor
  publish,            \* t_aepb_publish: the committed rows
  events,             \* t_aeev_events: the keys of the event log
  orphaned,           \* rows locked by transactions nobody will end
  driver,             \* how each instance is driven (fixed)
  handlers,           \* the names the application registers under (fixed)
  probe,              \* the application calls IsHealth (fixed)
  health,             \* history: the last call of IsHealth
  registration,       \* history: the last call of RegisterEventProcessor
  started,            \* a pass has begun: the setup of the registry is over
  db,                 \* op.db # nil
  LoopExitError,      \* op.LoopExitError
  pc,                 \* where each instance is in ProcessEvents
  loop,               \* ProcessEvents' argument
  consecutiveErrors,  \* local of ProcessEvents
  loopErr,            \* the loop body's loopErr (line 265)
  txn,                \* the loop body's txn: "nil", "open", "done"
  eventSpecs,         \* the batch pollEvents returned
  cur,                \* index of the row being processed
  todo,               \* names the range over eventProcessors has not visited
  held,               \* rows locked by the instance's open transaction
  deleted,            \* rows deleted in the open transaction, uncommitted
  outcome,            \* history: how the current pass went
  passErr,            \* history: the error that failed the current pass
  reconnected,        \* history: the pass's last Reconnect succeeded
  okRows,             \* history: rows some Processor accepted in this pass
  invoked,            \* history: <<row, name>> of every Processor call of the pass
  delFailed,          \* history: a delete statement of the pass failed
  failedPasses,       \* history: failed passes since the last success
  seen,               \* history: rows in the publish table when the pass polled
  calls,              \* history: Processor calls of the pass
  fetches,            \* history: calls of retrieveEventDetail in the pass
  deletes,            \* history: delete statements issued in the pass
  failures,           \* history: Processor calls of the pass that returned an error
  delivered           \* history: <<row, name>> of every Processor call so far

vars == <<eventProcessors, publish, events, orphaned, driver, handlers, probe,
          health, registration, started,
          db, LoopExitError,
          pc, loop, consecutiveErrors, loopErr, txn, eventSpecs, cur, todo,
          held, deleted, outcome, passErr, reconnected, okRows, invoked,
          delFailed, failedPasses, seen, calls, failures, deletes,
                 fetches,
          delivered>>

engineVars == <<db, LoopExitError, pc, loop, consecutiveErrors, loopErr, txn,
                eventSpecs, cur, todo, held, deleted>>
historyVars == <<outcome, passErr, reconnected, okRows, invoked, delFailed,
                 failedPasses, seen, calls, failures, deletes,
                 fetches,
                 delivered>>
tableVars == <<publish, events, orphaned>>
appVars == <<driver, handlers, probe, health, registration>>

\* len(eventProcessors): the names that have an entry.
Registered == {n \in Names : eventProcessors[n] # NoEntry}

Init ==
  /\ eventProcessors = [n \in Names |-> NoEntry]
  /\ \E d \in Deployments :
       /\ driver = d.driver
       /\ handlers = d.handlers
       /\ probe = d.probe
       /\ publish = d.publish
       /\ events = d.events
  /\ health = NoProbe
  /\ registration = NoCall
  /\ orphaned = {}
  /\ started = FALSE
  /\ db = [e \in Engines |-> FALSE]
  /\ LoopExitError = [e \in Engines |-> NoError]
  /\ pc = [e \in Engines |-> "idle"]
  /\ loop = [e \in Engines |-> FALSE]
  /\ consecutiveErrors = [e \in Engines |-> 0]
  /\ loopErr = [e \in Engines |-> NoError]
  /\ txn = [e \in Engines |-> "nil"]
  /\ eventSpecs = [e \in Engines |-> <<>>]
  /\ cur = [e \in Engines |-> 0]
  /\ todo = [e \in Engines |-> {}]
  /\ held = [e \in Engines |-> {}]
  /\ deleted = [e \in Engines |-> {}]
  /\ outcome = [e \in Engines |-> "none"]
  /\ passErr = [e \in Engines |-> NoError]
  /\ reconnected = [e \in Engines |-> FALSE]
  /\ okRows = [e \in Engines |-> {}]
  /\ invoked = [e \in Engines |-> {}]
  /\ delFailed = [e \in Engines |-> FALSE]
  /\ failedPasses = [e \in Engines |-> 0]
  /\ seen = [e \in Engines |-> 0]
  /\ calls = [e \in Engines |-> 0]
  /\ failures = [e \in Engines |-> 0]
  /\ deletes = [e \in Engines |-> 0]
  /\ fetches = [e \in Engines |-> 0]
  /\ delivered = {}

\* No instance is inside ProcessEvents.
AllIdle == \A e \in Engines : pc[e] = "idle"

\* The check of RegisterEventProcessor (lines 54-56).
NilField(eventProcessor) ==
  eventProcessor.Processor = Nil \/ eventProcessor.Initialize = Nil

\* What RegisterEventProcessor returns (lines 54-59).
RegisterError(eventProcessor) ==
  IF NilField(eventProcessor) THEN ErrNilEventProcessorField ELSE NoError

\* Mutant of RegistryAfter: the registration is stored before it is checked.
RegistryAfterUnchecked(name, eventProcessor) ==
  [eventProcessors EXCEPT ![name] = eventProcessor]

\* The registry after RegisterEventProcessor (lines 54-57).
RegistryAfter(name, eventProcessor) ==
  IF NilField(eventProcessor) THEN eventProcessors
  ELSE [eventProcessors EXCEPT ![name] = eventProcessor]

\* RegisterEventProcessor (lines 53-60).  The registry is a plain map that
\* is written during setup only, before the first pass begins.
RegisterEventProcessor(name, eventProcessor) ==
  /\ ~started
  /\ AllIdle
  /\ name \in handlers
  /\ eventProcessors' = RegistryAfter(name, eventProcessor)
  /\ registration' = [name |-> name, eventProcessor |-> eventProcessor,
                      err |-> RegisterError(eventProcessor)]
  /\ UNCHANGED <<tableVars, driver, handlers, probe, health, started,
                 engineVars, historyVars>>

\* ClearRegisteredEventProcessors (lines 47-49)
ClearRegisteredEventProcessors ==
  /\ ~started
  /\ AllIdle
  /\ Registered # {}
  /\ eventProcessors' = [n \in Names |-> NoEntry]
  /\ UNCHANGED <<tableVars, appVars, started, engineVars, historyVars>>

\* Connect (lines 103-113): op.db is set when oraconn.OpenAndConnect succeeds.
Connect(e) ==
  /\ pc[e] = "idle"
  /\ driver[e] # "none"
  /\ \E ok \in BOOLEAN : db' = [db EXCEPT ![e] = IF ok THEN TRUE ELSE @]
  /\ UNCHANGED <<eventProcessors, tableVars, appVars, started, LoopExitError, pc, loop,
                 consecutiveErrors, loopErr, txn, eventSpecs, cur, todo, held,
                 deleted, historyVars>>

\* isDbHealth (lines 345-354): false without a connection handle (extractDB
\* returns nil), else whether db.Ping() succeeded.
isDbHealth(e, ping) == db[e] /\ ping

\* Mutant of IsHealthResult: LoopExitError is not looked at.
IsHealthDbOnly(e, ping) == isDbHealth(e, ping)

\* What IsHealth returns (line 342).
IsHealthResult(e, ping) == LoopExitError[e] = NoError /\ isDbHealth(e, ping)

\* IsHealth (lines 341-343), called by the probe at any point of the
\* instance's work; ping: the database answers a ping now.
IsHealth(e) ==
  /\ probe
  /\ driver[e] # "none"
  /\ \E ping \in BOOLEAN :
       health' = [who |-> e, ping |-> ping, result |-> IsHealthResult(e, ping)]
  /\ UNCHANGED <<eventProcessors, tableVars, driver, handlers, probe,
                 registration, started, engineVars, historyVars>>

\* The locals of one loop iteration and the history of one pass, as they are
\* when an iteration starts (lines 265-266).
StartPass(e, how) ==
  /\ loopErr' = [loopErr EXCEPT ![e] = NoError]
  /\ txn' = [txn EXCEPT ![e] = "nil"]
  /\ eventSpecs' = [eventSpecs EXCEPT ![e] = <<>>]
  /\ cur' = [cur EXCEPT ![e] = 0]
  /\ todo' = [todo EXCEPT ![e] = {}]
  /\ deleted' = [deleted EXCEPT ![e] = {}]
  /\ outcome' = [outcome EXCEPT ![e] = how]
  /\ passErr' = [passErr EXCEPT ![e] = NoError]
  /\ reconnected' = [reconnected EXCEPT ![e] = FALSE]
  /\ okRows' = [okRows EXCEPT ![e] = {}]
  /\ invoked' = [invoked EXCEPT ![e] = {}]
  /\ delFailed' = [delFailed EXCEPT ![e] = FALSE]
  /\ seen' = [seen EXCEPT ![e] = 0]
  /\ calls' = [calls EXCEPT ![e] = 0]
  /\ failures' = [failures EXCEPT ![e] = 0]
  /\ deletes' = [deletes EXCEPT ![e] = 0]
  /\ fetches' = [fetches EXCEPT ![e] = 0]

\* Mutant of Precondition: the connection is checked first.
PreconditionDbFirst(e) ==
  IF ~db[e] THEN ErrNotConnected
  ELSE IF Cardinality(Registered) = 0 THEN ErrNoEventProcessorsRegistered
  ELSE NoError

\* The precondition ProcessEvents fails on, if any (lines 252-262).
Precondition(e) ==
  IF Cardinality(Registered) = 0 THEN ErrNoEventProcessorsRegistered
  ELSE IF ~db[e] THEN ErrNotConnected
  ELSE NoError

\* The call of ProcessEvents(loop) (lines 247-250).
ProcessEvents(e) ==
  /\ pc[e] = "idle"
  /\ driver[e] # "none"
  /\ loop' = [loop EXCEPT ![e] = (driver[e] = "loop")]
  /\ consecutiveErrors' = [consecutiveErrors EXCEPT ![e] = 0]
  /\ failedPasses' = [failedPasses EXCEPT ![e] = 0]
  /\ LoopExitError' = [LoopExitError EXCEPT ![e] = NoError]
  /\ StartPass(e, "running")
  /\ pc' = [pc EXCEPT ![e] = "entry"]
  /\ UNCHANGED <<eventProcessors, tableVars, appVars, started, db, held, delivered>>

\* The two checks before the loop (lines 252-262).
Precheck(e) ==
  /\ pc[e] = "entry"
  /\ LoopExitError' = [LoopExitError EXCEPT ![e] = Precondition(e)]
  /\ pc' = [pc EXCEPT ![e] = IF Precondition(e) # NoError THEN "idle" ELSE "begin"]
  /\ outcome' = [outcome EXCEPT ![e] = IF Precondition(e) # NoError THEN "none" ELSE @]
  /\ UNCHANGED <<eventProcessors, tableVars, appVars, started, db, loop,
                 consecutiveErrors, loopErr, txn, eventSpecs, cur, todo, held,
                 deleted, passErr, reconnected, okRows, invoked, delFailed,
                 failedPasses, seen, calls, failures, deletes,
                 fetches,
                 delivered>>

\* txn, loopErr := op.db.Begin() (lines 269-273).  With the first pass the
\* setup of the registry is over and its history is dropped.
Begin(e) ==
  /\ pc[e] = "begin"
  /\ started' = TRUE
  /\ registration' = NoCall
  /\ \/ /\ txn' = [txn EXCEPT ![e] = "open"]
        /\ pc' = [pc EXCEPT ![e] = "poll"]
        /\ UNCHANGED <<loopErr, outcome, passErr>>
     \/ \E err \in DbErrors :
          /\ loopErr' = [loopErr EXCEPT ![e] = err]
          /\ passErr' = [passErr EXCEPT ![e] = err]
          /\ outcome' = [outcome EXCEPT ![e] = "beginFailed"]
          /\ pc' = [pc EXCEPT ![e] = "exitpt"]
          /\ UNCHANGED txn
  /\ UNCHANGED <<eventProcessors, tableVars, driver, handlers, probe, health,
                 db, LoopExitError, loop,
                 consecutiveErrors, eventSpecs, cur, todo, held, deleted,
                 reconnected, okRows, invoked, delFailed, failedPasses, seen,
                 calls, failures, deletes,
                 fetches,
                 delivered>>

\* handleConnectionError (lines 118-125); rc: op.db.Reconnect(5) succeeds.
handleConnectionError(err, rc) == IsConnectionError(err) /\ rc

\* Rows locked by a transaction other than the instance's own.
LockedByOthers(e) == orphaned \cup UNION {held[o] : o \in Engines \ {e}}

\* Mutant of RownumSets: the query without its rownum condition.
RownumAll(table) == {table}

\* where rownum < 101: the rows the query keeps, any BatchCap of the table
\* (rownum is assigned before order by sorts).
RownumSets(table) ==
  IF Cardinality(table) <= BatchCap THEN {table}
  ELSE {s \in SUBSET table : Cardinality(s) = BatchCap}

\* order by version: the orders of the rows the query may return them in.
OrderByVersion(rows) ==
  {s \in [1..Cardinality(rows) -> rows] :
     /\ \A i, j \in DOMAIN s : i # j => s[i] # s[j]
     /\ \A i, j \in DOMAIN s : i < j => s[i][2] <= s[j][2]}

\* Mutant of ForUpdate: the query without for update.
ForUpdateNoLock(e, rows) == TRUE

\* for update: the query returns once none of its rows is locked elsewhere.
ForUpdate(e, rows) == rows \cap LockedByOthers(e) = {}

\* What pollEvents(txn) may return (lines 130-171): the batches.
pollEvents(e) ==
  UNION {OrderByVersion(rows) : rows \in {r \in RownumSets(publish) : ForUpdate(e, r)}}

\* eventSpecs, loopErr = op.pollEvents(txn) and the empty batch (lines 276-287)
Poll(e) ==
  /\ pc[e] = "poll"
  /\ \/ \E err \in DbErrors, rc \in BOOLEAN :
          /\ loopErr' = [loopErr EXCEPT ![e] = err]
          /\ passErr' = [passErr EXCEPT ![e] = err]
          /\ reconnected' = [reconnected EXCEPT ![e] = handleConnectionError(err, rc)]
          /\ outcome' = [outcome EXCEPT ![e] = "pollFailed"]
          /\ pc' = [pc EXCEPT ![e] = "exitpt"]
          /\ UNCHANGED <<txn, eventSpecs, cur, held, seen>>
     \/ \E batch \in pollEvents(e) :
          /\ eventSpecs' = [eventSpecs EXCEPT ![e] = batch]
          /\ seen' = [seen EXCEPT ![e] = Cardinality(publish)]
          /\ IF Len(batch) = 0
               THEN /\ txn' = [txn EXCEPT ![e] = "done"]
                    /\ outcome' = [outcome EXCEPT ![e] = "empty"]
                    /\ pc' = [pc EXCEPT ![e] = "exitpt"]
                    /\ UNCHANGED <<cur, held>>
               ELSE /\ held' = [held EXCEPT ![e] = {batch[i] : i \in DOMAIN batch}]
                    /\ cur' = [cur EXCEPT ![e] = 1]
                    /\ pc' = [pc EXCEPT ![e] = "fetch"]
                    /\ UNCHANGED <<txn, outcome>>
          /\ UNCHANGED <<loopErr, passErr, reconnected>>
  /\ UNCHANGED <<eventProcessors, tableVars, appVars, started, db, LoopExitError, loop,
                 consecutiveErrors, todo, deleted, okRows, invoked, delFailed,
                 failedPasses, calls, failures, deletes,
                 fetches,
                 delivered>>

\* Mutant of retrieveEventDetail: a row that was not scanned is not reported.
retrieveEventDetailUnscanned(es) == DbErrors \cup {NoError}

\* What retrieveEventDetail can return for a row (lines 201-240): the event
\* ("nil" error), the error of the query, or not found.
retrieveEventDetail(es) ==
  DbErrors \cup (IF es \in events THEN {NoError} ELSE {ErrNotFound})

\* e, loopErr := op.retrieveEventDetail(...) (lines 293-297).  The := declares
\* a loopErr of the inner block: the outer loopErr stays nil on the way to exitpt.
Fetch(e) ==
  /\ pc[e] = "fetch"
  /\ fetches' = [fetches EXCEPT ![e] = @ + 1]
  /\ \E err \in retrieveEventDetail(eventSpecs[e][cur[e]]), rc \in BOOLEAN :
       IF err # NoError
         THEN /\ passErr' = [passErr EXCEPT ![e] = err]
              /\ reconnected' = [reconnected EXCEPT ![e] = handleConnectionError(err, rc)]
              /\ outcome' = [outcome EXCEPT ![e] = "fetchFailed"]
              /\ pc' = [pc EXCEPT ![e] = "exitpt"]
              /\ UNCHANGED todo
         ELSE /\ rc
              /\ todo' = [todo EXCEPT ![e] = Registered]
              /\ pc' = [pc EXCEPT ![e] = "dispatch"]
              /\ UNCHANGED <<passErr, reconnected, outcome>>
  /\ UNCHANGED <<eventProcessors, tableVars, appVars, started, db, LoopExitError, loop,
                 consecutiveErrors, loopErr, txn, eventSpecs, cur, held, deleted,
                 okRows, invoked, delFailed, failedPasses, seen, calls, failures, deletes,
                 delivered>>

\* Mutant of deleteEvent: the delete statement names the aggregate only.
deleteEventByAggregate(e, es, err) ==
  IF err = NoError THEN deleted[e] \cup {r \in publish : r[1] = es[1]} ELSE deleted[e]

\* Mutant of deleteEvent: the delete is not issued.
deleteEventNothing(e, es, err) == deleted[e]

\* deleteEvent (lines 175-184) in the instance's transaction: the rows deleted
\* so far, given the error of the delete statement.
deleteEvent(e, es, err) ==
  IF err = NoError THEN deleted[e] \cup {es} ELSE deleted[e]

\* Mutant of RangeRest: the range is left at the first Processor that
\* returned an error.
RangeRestAbort(e, p, procErr) == IF procErr # NoError THEN {} ELSE todo[e] \ {p}

\* Mutant of RangeRest: the range breaks after the first Processor that
\* returned nil.
RangeRestBreak(e, p, procErr) == IF procErr = NoError THEN {} ELSE todo[e] \ {p}

\* The names the range over eventProcessors still has to visit after the
\* Processor under p returned procErr (lines 299-307): the range goes on
\* whatever the Processor returned.
RangeRest(e, p, procErr) == todo[e] \ {p}

\* Mutant of LoopErrAfterProcessor: the Processor's error is assigned to
\* loopErr.
LoopErrFromProcessor(e, procErr) == IF procErr # NoError THEN procErr ELSE loopErr[e]

\* loopErr after a Processor returned procErr (lines 301-306): procErr is a
\* variable of its own, loopErr is not assigned.
LoopErrAfterProcessor(e, procErr) == loopErr[e]

\* One turn of the range over eventProcessors (lines 299-307): the Processor
\* under name p is called with the event and returns procErr.
Dispatch(e) ==
  /\ pc[e] = "dispatch"
  /\ LET es == eventSpecs[e][cur[e]] IN
     \E p \in todo[e], procErr \in {NoError, "procErr"}, delErr \in {NoError} \cup DbErrors :
       /\ invoked' = [invoked EXCEPT ![e] = @ \cup {<<es, p>>}]
       /\ delivered' = delivered \cup {<<es, p>>}
       /\ calls' = [calls EXCEPT ![e] = @ + 1]
       /\ failures' = [failures EXCEPT ![e] = IF procErr = NoError THEN @ ELSE @ + 1]
       /\ IF procErr = NoError
            THEN /\ deleted' = [deleted EXCEPT ![e] = deleteEvent(e, es, delErr)]
                 /\ okRows' = [okRows EXCEPT ![e] = @ \cup {es}]
                 /\ delFailed' = [delFailed EXCEPT ![e] = @ \/ delErr # NoError]
                 /\ deletes' = [deletes EXCEPT ![e] = @ + 1]
            ELSE /\ delErr = NoError
                 /\ UNCHANGED <<deleted, okRows, delFailed, deletes>>
       /\ loopErr' = [loopErr EXCEPT ![e] = LoopErrAfterProcessor(e, procErr)]
       /\ todo' = [todo EXCEPT ![e] = RangeRest(e, p, procErr)]
       /\ IF RangeRest(e, p, procErr) # {}
            THEN UNCHANGED <<pc, cur>>
            ELSE IF cur[e] < Len(eventSpecs[e])
              THEN /\ cur' = [cur EXCEPT ![e] = @ + 1]
                   /\ pc' = [pc EXCEPT ![e] = "fetch"]
              ELSE /\ pc' = [pc EXCEPT ![e] = "commit"]
                   /\ UNCHANGED cur
  /\ UNCHANGED <<eventProcessors, tableVars, appVars, started, db, LoopExitError, loop,
                 consecutiveErrors, txn, eventSpecs, held, outcome,
                 passErr, reconnected, failedPasses, seen, fetches>>

\* txn.Commit(); consecutiveErrors = 0 (lines 311-313).  The error of Commit
\* is not looked at.
Commit(e) ==
  /\ pc[e] = "commit"
  /\ \E ok \in BOOLEAN :
       /\ publish' = IF ok THEN publish \ deleted[e] ELSE publish
       /\ delivered' = IF ok THEN {d \in delivered : d[1] \notin deleted[e]}
                               ELSE delivered
       /\ outcome' = [outcome EXCEPT ![e] = IF ok THEN "committed" ELSE "commitFailed"]
  /\ txn' = [txn EXCEPT ![e] = "done"]
  /\ held' = [held EXCEPT ![e] = {}]
  /\ deleted' = [deleted EXCEPT ![e] = {}]
  /\ consecutiveErrors' = [consecutiveErrors EXCEPT ![e] = 0]
  /\ pc' = [pc EXCEPT ![e] = "exitpt"]
  /\ UNCHANGED <<eventProcessors, events, orphaned, appVars, started, db, LoopExitError,
                 loop, loopErr, eventSpecs, cur, todo, passErr, reconnected,
                 okRows, invoked, delFailed, failedPasses, seen, calls,
                 failures, deletes, fetches>>

\* The history counter of failed passes after a pass: a pass that reached
\* commit or recovered the connection starts the count again, a pass that
\* found no rows leaves it.
FailedPassesAfter(e, recovered) ==
  IF passErr[e] # NoError
    THEN (IF recovered THEN 0 ELSE failedPasses[e] + 1)
    ELSE IF outcome[e] \in {"committed", "commitFailed"} THEN 0 ELSE failedPasses[e]

\* Mutant of ErrorsAfter: the result of the reconnect is not looked at.
ErrorsAfterAnyReconnect(e, rc) ==
  IF IsConnectionError(loopErr[e]) THEN 0 ELSE consecutiveErrors[e] + 1

\* The counter after a failed pass (lines 317-325).
ErrorsAfter(e, rc) ==
  IF handleConnectionError(loopErr[e], rc) THEN 0 ELSE consecutiveErrors[e] + 1

\* Mutant of Fatal: the test is >= instead of >.
FatalAtThreshold(n) == n >= consecutiveErrorsThreshold

\* The fatal test (line 327).
Fatal(n) == n > consecutiveErrorsThreshold

\* exitpt: (lines 315-331).  Reconnect is called for a connection-class
\* error only: rc is fixed for the others.
Exitpt(e) ==
  /\ pc[e] = "exitpt"
  /\ IF loopErr[e] # NoError
       THEN \E rc \in BOOLEAN :
              /\ IsConnectionError(loopErr[e]) \/ rc
              /\ consecutiveErrors' = [consecutiveErrors EXCEPT ![e] = ErrorsAfter(e, rc)]
              /\ reconnected' = [reconnected EXCEPT ![e] = handleConnectionError(loopErr[e], rc)]
              /\ failedPasses' = [failedPasses EXCEPT ![e] =
                                    FailedPassesAfter(e, handleConnectionError(loopErr[e], rc))]
              /\ txn' = [txn EXCEPT ![e] = IF @ = "open" THEN "done" ELSE @]
              /\ held' = [held EXCEPT ![e] = {}]
              /\ deleted' = [deleted EXCEPT ![e] = {}]
              /\ IF Fatal(ErrorsAfter(e, rc))
                   THEN /\ LoopExitError' = [LoopExitError EXCEPT ![e] = loopErr[e]]
                        /\ pc' = [pc EXCEPT ![e] = "idle"]
                   ELSE /\ pc' = [pc EXCEPT ![e] = "loopchk"]
                        /\ UNCHANGED LoopExitError
       ELSE /\ failedPasses' = [failedPasses EXCEPT ![e] =
                                  FailedPassesAfter(e, reconnected[e])]
            /\ pc' = [pc EXCEPT ![e] = "loopchk"]
            /\ UNCHANGED <<consecutiveErrors, reconnected, txn, held, deleted,
                           LoopExitError>>
  /\ UNCHANGED <<eventProcessors, tableVars, appVars, started, db, loop, loopErr,
                 eventSpecs, cur, todo, outcome, passErr, okRows, invoked,
                 delFailed, seen, calls, failures, deletes,
                 fetches,
                 delivered>>

\* if loop != true { break } else { continue } (lines 333-337).  A transaction
\* the iteration leaves open is out of the program's reach from here on.
LoopCheck(e) ==
  /\ pc[e] = "loopchk"
  /\ orphaned' = IF txn[e] = "open" THEN orphaned \cup held[e] ELSE orphaned
  /\ held' = [held EXCEPT ![e] = {}]
  /\ StartPass(e, IF loop[e] THEN "running" ELSE "none")
  /\ IF loop[e]
       THEN /\ pc' = [pc EXCEPT ![e] = "begin"]
            /\ UNCHANGED <<consecutiveErrors, failedPasses>>
       ELSE /\ pc' = [pc EXCEPT ![e] = "idle"]
            /\ consecutiveErrors' = [consecutiveErrors EXCEPT ![e] = 0]
            /\ failedPasses' = [failedPasses EXCEPT ![e] = 0]
  /\ UNCHANGED <<eventProcessors, publish, events, appVars, started, db, LoopExitError,
                 loop, delivered>>

Next ==
  \/ \E n \in Names, ep \in EventProcessor : RegisterEventProcessor(n, ep)
  \/ ClearRegisteredEventProcessors
  \/ \E e \in Engines : Connect(e)
  \/ \E e \in Engines : ProcessEvents(e)
  \/ \E e \in Engines : Precheck(e)
  \/ \E e \in Engines : Begin(e)
  \/ \E e \in Engines : Poll(e)
  \/ \E e \in Engines : Fetch(e)
  \/ \E e \in Engines : Dispatch(e)
  \/ \E e \in Engines : Commit(e)
  \/ \E e \in Engines : Exitpt(e)
  \/ \E e \in Engines : LoopCheck(e)
  \/ \E e \in Engines : IsHealth(e)

Spec == Init /\ [][Next]_vars

\* The steps an instance takes by itself: a call of ProcessEvents that has
\* started goes on, statement after statement; the poll goes on when its query
\* returns, which it does not while a row it selects is locked elsewhere.
\* Database faults are not owed to anyone.
Progress(e) ==
  \/ Precheck(e)
  \/ Begin(e)
  \/ Poll(e) /\ passErr'[e] = NoError
  \/ Fetch(e)
  \/ Dispatch(e)
  \/ Commit(e)
  \/ Exitpt(e)
  \/ LoopCheck(e)

FairSpec == Spec /\ \A e \in Engines : WF_vars(Progress(e))

\* ------------------------------------------------------------------ claims
Range(s) == {s[i] : i \in DOMAIN s}

\* The rows whose event has been read and handed to the processors.
Fetched ==
  {d[1] : d \in delivered}
  \cup {eventSpecs[e][cur[e]] : e \in {x \in Engines : pc[x] = "dispatch"}}

\* Every row locked by some transaction.
Locked == orphaned \cup UNION {held[e] : e \in Engines}

PreconditionErrors == {ErrNoEventProcessorsRegistered, ErrNotConnected}

\* C1: in a pass that commits, a polled and fetched row leaves the publish
\* table if and only if some Processor returned nil for it in that pass.
C1_DeletionPolicy ==
  [][\A e \in Engines :
       (pc[e] = "commit" /\ outcome'[e] = "committed")
         => \A es \in Range(eventSpecs[e]) :
              (es \notin publish') <=> (es \in okRows[e])]_vars

\* C2, as stated: when the delete of a row is issued, every registered
\* processor has been called with the row's event.
C2_InvokedBeforeDelete ==
  [][\A e \in Engines, es \in EventSpec :
       (es \notin deleted[e] /\ es \in deleted'[e])
         => \A n \in Registered : <<es, n>> \in delivered']_vars

\* C2, amended: when a row leaves the publish table (the commit of the
\* transaction that deleted it), every registered processor has been called
\* with the row's event.
C2_InvokedBeforeCommit ==
  [][\A es \in publish \ publish' :
       \A n \in Registered : <<es, n>> \in delivered]_vars

\* C2 witness: with two processors registered, a pass committed the delete of
\* a row one of them accepted.
C2_Witness ==
  \E e \in Engines :
    /\ pc[e] = "loopchk" /\ outcome[e] = "committed"
    /\ Cardinality(Registered) = 2
    /\ \E es \in Range(eventSpecs[e]) :
         /\ es \in okRows[e] /\ es \notin publish
         /\ \A n \in Registered : <<es, n>> \in invoked[e]

\* C3: no row is in the batches of two open transactions, and no poll returns
\* a row that a transaction not yet ended has locked.
C3_MutualExclusion ==
  /\ \A e1, e2 \in Engines :
       (e1 # e2 /\ txn[e1] = "open" /\ txn[e2] = "open")
         => Range(eventSpecs[e1]) \cap Range(eventSpecs[e2]) = {}
  /\ \A e1, e2 \in Engines : e1 # e2 => held[e1] \cap held[e2] = {}
  /\ \A e \in Engines : held[e] \cap orphaned = {}
  /\ \A e \in Engines : txn[e] = "open" => held[e] = Range(eventSpecs[e])

\* C3 witness: an instance is at its poll, inside its transaction, while the
\* other instance's open transaction holds the row: the poll has to wait.
C3_Witness ==
  \E e1, e2 \in Engines :
    /\ e1 # e2
    /\ pc[e1] = "poll" /\ txn[e1] = "open"
    /\ txn[e2] = "open" /\ held[e2] # {} /\ held[e2] \subseteq publish
    /\ pollEvents(e1) = {}

\* C4: in loop mode the loop has returned, with LoopExitError set, once more
\* than consecutiveErrorsThreshold passes in a row have failed, and is running
\* with LoopExitError nil up to then.
C4_FatalThreshold ==
  \A e \in Engines :
    (loop[e] /\ LoopExitError[e] \notin PreconditionErrors)
      => /\ (pc[e] \in {"loopchk", "idle"} /\ failedPasses[e] > consecutiveErrorsThreshold)
              => (pc[e] = "idle" /\ LoopExitError[e] # NoError)
         /\ failedPasses[e] <= consecutiveErrorsThreshold
              => (pc[e] # "idle" /\ LoopExitError[e] = NoError)

\* C5: the step that ends a pass that failed in begin, poll or fetch leaves
\* the pass's transaction ended and the counter one higher, or zero when the
\* error is connection-class and the reconnect succeeded.
C5_FailureHandling ==
  [][\A e \in Engines :
       (pc[e] = "exitpt" /\ pc'[e] # "exitpt" /\ passErr[e] # NoError)
         => /\ txn'[e] # "open"
            /\ consecutiveErrors'[e] =
                 IF IsConnectionError(passErr[e]) /\ reconnected'[e]
                   THEN 0 ELSE consecutiveErrors[e] + 1]_vars

\* C6: the step that ends a pass that failed with a connection-class error
\* whose reconnect succeeded leaves the counter zero and goes on to the next
\* pass.
C6_Recovery ==
  [][\A e \in Engines :
       (pc[e] = "exitpt" /\ pc'[e] # "exitpt"
          /\ IsConnectionError(passErr[e]) /\ reconnected'[e])
         => (consecutiveErrors'[e] = 0 /\ pc'[e] = "loopchk")]_vars

C8_PerAggregateOrder ==
  \A es \in Fetched : \A lo \in publish :
    (lo[1] = es[1] /\ lo[2] < es[2]) => lo \in Fetched

\* C9: a poll returns and locks at most BatchCap rows, and locks no row
\* outside the batch it returns.
C9_BatchBound ==
  \A e \in Engines :
    /\ Len(eventSpecs[e]) <= BatchCap
    /\ Cardinality(held[e]) <= BatchCap
    /\ held[e] \subseteq Range(eventSpecs[e])

\* C9 witness: a poll returned a full batch out of a table with more rows,
\* and a pending row is left unlocked.
C9_Witness ==
  \E e \in Engines :
    /\ pc[e] = "fetch" /\ cur[e] = 1
    /\ Len(eventSpecs[e]) = BatchCap
    /\ seen[e] > BatchCap
    /\ publish \ Locked # {}

\* The pass of a single-pass call is over, no database call failed in it and
\* the one registered Processor returned nil every time.
CleanSinglePass(e) ==
  /\ pc[e] = "loopchk" /\ ~loop[e]
  /\ Cardinality(Registered) = 1
  /\ passErr[e] = NoError /\ ~delFailed[e] /\ outcome[e] # "commitFailed"
  /\ {d[1] : d \in invoked[e]} \subseteq okRows[e]

\* C10: a single pass with one processor that always succeeds and no database
\* failure, over N <= BatchCap pending rows, calls the Processor N times and
\* leaves the publish table empty; over an empty table it calls nothing.
C10_SinglePass ==
  \A e \in Engines :
    (CleanSinglePass(e) /\ seen[e] <= BatchCap)
      => /\ calls[e] = seen[e]
         /\ Len(eventSpecs[e]) = seen[e]
         /\ publish = {}
         /\ outcome[e] = (IF seen[e] = 0 THEN "empty" ELSE "committed")

\* C10 witness: such a pass over a full batch of rows.
C10_Witness ==
  \E e \in Engines :
    /\ CleanSinglePass(e)
    /\ seen[e] = BatchCap /\ calls[e] = BatchCap
    /\ outcome[e] = "committed" /\ publish = {}

\* The rows of the batch whose event has been read so far in the pass.
BodyFetched(e) ==
  LET n == IF pc[e] = "fetch" \/ outcome[e] = "fetchFailed"
             THEN cur[e] - 1 ELSE cur[e]
  IN {eventSpecs[e][i] : i \in 1..n}

\* C11: no Processor is called twice with a row in a pass and, once the range
\* over the registry is done for a row, every registered Processor has been
\* called with every row whose event was read, whatever the Processors
\* returned; a row some Processor accepted is gone after a pass that issued
\* its deletes and committed.
C11_EveryHandlerOnce ==
  \A e \in Engines :
    /\ calls[e] = Cardinality(invoked[e])
    /\ pc[e] # "dispatch" => invoked[e] = BodyFetched(e) \X Registered
    /\ pc[e] = "dispatch"
         => /\ (BodyFetched(e) \ {eventSpecs[e][cur[e]]}) \X Registered \subseteq invoked[e]
            /\ invoked[e] \subseteq BodyFetched(e) \X Registered
    /\ (pc[e] = "exitpt" /\ outcome[e] = "committed" /\ ~delFailed[e])
         => okRows[e] \cap publish = {}

\* C11 witness: two processors, one row; one Processor returned an error, the
\* other nil; both were called once and the row is deleted.
C11_Witness ==
  \E e \in Engines :
    /\ pc[e] = "exitpt" /\ outcome[e] = "committed"
    /\ Cardinality(Registered) = 2 /\ Len(eventSpecs[e]) = 1
    /\ calls[e] = 2 /\ failures[e] = 1
    /\ invoked[e] = {eventSpecs[e][1]} \X Registered
    /\ eventSpecs[e][1] \notin publish

\* C12: the error of a Processor is never the pass's error nor LoopExitError,
\* and a pass whose rows were all read and in which Processors failed reaches
\* commit, with the counter zero and LoopExitError nil after it.
C12_HandlerErrorsContained ==
  \A e \in Engines :
    /\ "procErr" \notin {loopErr[e], passErr[e], LoopExitError[e]}
    /\ (pc[e] \in {"exitpt", "loopchk"} /\ passErr[e] = NoError /\ failures[e] > 0)
         => /\ outcome[e] \in {"committed", "commitFailed"}
            /\ consecutiveErrors[e] = 0
            /\ LoopExitError[e] = NoError
    /\ (pc[e] = "loopchk" /\ passErr[e] = NoError /\ failures[e] > 0)
         => failedPasses[e] = 0

\* C12 witness: in loop mode a pass in which every Processor call failed has
\* committed; the row is still pending and the loop goes on.
C12_Witness ==
  \E e \in Engines :
    /\ pc[e] = "loopchk" /\ loop[e]
    /\ calls[e] > 0 /\ failures[e] = calls[e]
    /\ outcome[e] = "committed"
    /\ Range(eventSpecs[e]) \subseteq publish
    /\ consecutiveErrors[e] = 0

\* C13: a call of IsHealth returns true exactly when LoopExitError is nil, a
\* connection handle is held and the ping succeeds, and changes nothing of the
\* instance, the registry or the tables, whatever the instance is doing.
C13_IsHealth ==
  [][health' # health
       => /\ health'.result
               <=> /\ LoopExitError[health'.who] = NoError
                   /\ db[health'.who]
                   /\ health'.ping
          /\ UNCHANGED <<LoopExitError, db, eventProcessors, publish, events,
                         orphaned, held, deleted, txn, pc, consecutiveErrors>>]_vars

\* C13 witness: IsHealth returned true to a probe that asked an instance in
\* the middle of a pass of its loop.
C13_Witness ==
  /\ health.who \in Engines
  /\ health.result
  /\ loop[health.who] /\ pc[health.who] = "dispatch"
  /\ LoopExitError[health.who] = NoError

\* C14: a call of RegisterEventProcessor with a nil Initialize or Processor
\* returns ErrNilEventProcessorField and leaves the registry as it was; any
\* other call returns nil and leaves the registry changed by exactly the entry
\* under the name, which is the registration given; and in every pass a row is
\* handed to the Processors once per registered name.
C14_Register ==
  [][/\ (registration' # registration /\ registration'.name # "none")
          => LET name == registration'.name
                 ep == registration'.eventProcessor
             IN IF ep.Initialize = Nil \/ ep.Processor = Nil
                  THEN /\ registration'.err = ErrNilEventProcessorField
                       /\ eventProcessors' = eventProcessors
                  ELSE /\ registration'.err = NoError
                       /\ eventProcessors'[name] = ep
                       /\ \A n \in Names \ {name} :
                            eventProcessors'[n] = eventProcessors[n]
     /\ \A n \in Names :
          eventProcessors'[n] # NoEntry
            => (eventProcessors'[n].Initialize # Nil /\ eventProcessors'[n].Processor # Nil)
     /\ \A e \in Engines :
          /\ calls'[e] = Cardinality(invoked'[e])
          /\ \A d \in invoked'[e] : eventProcessors'[d[2]] # NoEntry]_vars

\* C14 witness: a registration with a nil field was refused under a name
\* whose earlier registration, itself a replacement, is kept.
C14_Witness ==
  /\ registration.name \in Names
  /\ registration.err = ErrNilEventProcessorField
  /\ registration.eventProcessor.Processor = Nil
  /\ eventProcessors[registration.name] # NoEntry
  /\ eventProcessors[registration.name].Processor = "p2"

\* C15: a delete statement is issued for every Processor call that returned
\* nil; a delete of a row the transaction has deleted already changes nothing,
\* no delete removes another row, and the commit removes from the publish
\* table the rows deleted, each once, and no other.
C15_IdempotentDelete ==
  [][\A e \in Engines :
       /\ calls'[e] = calls[e] + 1
            => LET es == eventSpecs[e][cur[e]] IN
               /\ deletes'[e] = IF failures'[e] = failures[e]
                                  THEN deletes[e] + 1 ELSE deletes[e]
               /\ es \in deleted[e] => deleted'[e] = deleted[e]
               /\ deleted'[e] \subseteq deleted[e] \cup {es}
               /\ publish' = publish
       /\ (pc[e] = "commit" /\ pc'[e] # "commit")
            => /\ deleted[e] \subseteq okRows[e]
               /\ publish' \in {publish, publish \ deleted[e]}
               /\ outcome'[e] = "committed" => publish' = publish \ deleted[e]]_vars

\* C15 witness: both Processors returned nil for one row of a batch of two and
\* an error for the other; two deletes were issued, without error, and the
\* commit removed the first row alone.
C15_Witness ==
  \E e \in Engines :
    /\ pc[e] = "exitpt" /\ outcome[e] = "committed"
    /\ Len(eventSpecs[e]) = 2 /\ seen[e] = 2
    /\ calls[e] = 4 /\ failures[e] = 2
    /\ deletes[e] = 2 /\ ~delFailed[e]
    /\ Cardinality(okRows[e]) = 1
    /\ publish = Range(eventSpecs[e]) \ okRows[e]

\* C16: in loop mode, past the precondition checks, ProcessEvents has returned
\* only with the counter above consecutiveErrorsThreshold and LoopExitError
\* set to the error of the pass that failed last; while the loop runs
\* LoopExitError is nil.
C16_OnlyFatalExit ==
  \A e \in Engines :
    loop[e]
      => /\ (pc[e] = "idle" /\ LoopExitError[e] \notin PreconditionErrors)
              => /\ consecutiveErrors[e] > consecutiveErrorsThreshold
                 /\ LoopExitError[e] # NoError
                 /\ LoopExitError[e] = passErr[e]
                 /\ outcome[e] \in {"beginFailed", "pollFailed", "fetchFailed"}
         /\ pc[e] # "idle" => LoopExitError[e] = NoError

\* C16 witness: the loop has returned through the fatal exit.
C16_Witness ==
  \E e \in Engines :
    /\ loop[e] /\ pc[e] = "idle"
    /\ LoopExitError[e] \in DbErrors
    /\ consecutiveErrors[e] = consecutiveErrorsThreshold + 1

\* C17: no event is handed to a Processor for a row without a log entry; when
\* the fetch of a row fails with not found, the row has no log entry, no
\* Processor was called with it in the pass, the pass goes to its end without
\* another fetch, and the row is still in the publish table.
C17_MissingEventBody ==
  /\ \A d \in delivered : d[1] \in events
  /\ \A e \in Engines :
       (outcome[e] = "fetchFailed" /\ passErr[e] = ErrNotFound)
         => LET es == eventSpecs[e][cur[e]] IN
            /\ pc[e] \in {"exitpt", "loopchk"}
            /\ es \notin events
            /\ \A n \in Names : <<es, n>> \notin invoked[e]
            /\ fetches[e] = cur[e]
            /\ es \in publish /\ es \notin deleted[e]

\* C17 witness: the pass that polled a row without a log entry is over; the
\* row was fetched once, no Processor was called and the row is pending.
C17_Witness ==
  \E e \in Engines :
    /\ pc[e] = "loopchk"
    /\ outcome[e] = "fetchFailed" /\ passErr[e] = ErrNotFound
    /\ fetches[e] = 1 /\ calls[e] = 0
    /\ eventSpecs[e][1] \in publish

\* C18: when a pass is over, before the next pass begins or ProcessEvents
\* returns, the transaction the pass began is committed or rolled back, so
\* that no row stays locked by a transaction of an earlier pass.
C18_TransactionEnded ==
  /\ \A e \in Engines : pc[e] = "loopchk" => (txn[e] # "open" /\ held[e] = {})
  /\ \A e \in Engines : pc[e] \in {"idle", "begin"} => held[e] = {}
  /\ orphaned = {}

\* C19: in loop mode, if from some point on no pass reaches commit or finds
\* the table empty and no error is connection-class, the loop eventually
\* returns through the fatal exit, LoopExitError set.
C19_BoundedRetries ==
  \A e \in Engines :
    <>[](/\ loop[e] /\ LoopExitError[e] \notin PreconditionErrors
         /\ pc[e] # "entry"
         /\ outcome[e] \notin {"committed", "commitFailed", "empty"}
         /\ ~IsConnectionError(passErr[e]))
      => <>(pc[e] = "idle" /\ LoopExitError[e] \in DbErrors)

\* C20: inside a call of ProcessEvents the counter goes back to zero only at
\* the commit of a pass that polled rows or at the end of a pass that failed
\* with a connection-class error and reconnected; a pass whose poll returns no
\* row ends its transaction, calls no Processor, deletes nothing and leaves
\* the counter, and the failed passes counted so far, as they were.
C20_CounterReset ==
  [][\A e \in Engines :
       /\ (/\ consecutiveErrors[e] # 0 /\ consecutiveErrors'[e] = 0
           /\ pc[e] # "idle" /\ pc'[e] \notin {"idle", "entry"})
            => \/ pc[e] = "commit" /\ Len(eventSpecs[e]) > 0
               \/ /\ pc[e] = "exitpt"
                  /\ IsConnectionError(passErr[e]) /\ reconnected'[e]
       /\ (pc[e] = "poll" /\ outcome'[e] = "empty")
            => /\ txn'[e] = "done" /\ held'[e] = {}
               /\ pc'[e] = "exitpt"
               /\ consecutiveErrors'[e] = consecutiveErrors[e]
               /\ publish' = publish
       /\ (pc[e] = "exitpt" /\ pc'[e] # "exitpt" /\ outcome[e] = "empty")
            => /\ pc'[e] = "loopchk"
               /\ calls[e] = 0 /\ deletes[e] = 0 /\ fetches[e] = 0
               /\ consecutiveErrors'[e] = consecutiveErrors[e]
               /\ failedPasses'[e] = failedPasses[e]
               /\ publish' = publish]_vars

\* C20 witness: in loop mode two passes have failed and the pass after them,
\* which found no row, is over with the counter still at two.
C20_Witness ==
  \E e \in Engines :
    /\ loop[e] /\ pc[e] = "loopchk"
    /\ outcome[e] = "empty"
    /\ consecutiveErrors[e] = 2 /\ failedPasses[e] = 2
    /\ txn[e] = "done"
====
